---- MODULE Spec2Model ----
(***************************************************************************)
(* Self-healing browser automation: the control loop of                    *)
(* AutomationOrchestrator.run_automation, the error diagnosis agent, the   *)
(* adaptive repair agent and the cost tracker.                             *)
(*                                                                         *)
(* Money is counted in units of 10^-5 dollar and tokens in thousands, so   *)
(* that the per-million prices of config.py are integers per k-token.      *)
(* A text (an error message, a script source) is a sequence of words; a    *)
(* substring test of the code is a test on the words of the text.          *)
(***************************************************************************)
EXTENDS Integers, Sequences, FiniteSets, TLC

VARIABLES
    pc,                   \* position of the one run_automation call
    auto_heal,            \* the call's auto_heal argument
    MAX_REPAIR_ATTEMPTS,  \* Config.MAX_REPAIR_ATTEMPTS of this deployment
    FALLBACK_MODEL,       \* Config.FALLBACK_MODEL of this deployment
    task_status,          \* task.status
    test_run,             \* the TestRun of the call
    current_script,       \* local current_script
    attempt,              \* local attempt
    result,               \* local result (the last ExecutionResult)
    diagnosis,            \* local diagnosis (the last ErrorDiagnosis)
    tracker,              \* the CostTracker singleton (in-memory totals)
    ledger,               \* daily_costs.json, today's bucket
    saved,                \* test_run.json files written by _save_test_run
    calls,                \* requests the backends and tiers have received
    llm_response,         \* what the model tier got in the last diagnose_error
    repair,               \* local repair (the last RepairAttempt returned)
    budget_check,         \* the last check_budget call: estimate and answer
    workers,              \* worker processes side by side: tracker and task
    run_files,            \* logs/<task id>/test_run.json: who wrote it last
    ledger_at_start,      \* daily_costs.json, today's bucket, at start-up
    store,                \* daily_costs.json by date, and the governor on it
    cancel_requested,     \* the caller has asked for the run to be cancelled
    clock,                \* datetime.now()
    outcome               \* what the caller of the API got

\* What no step of the one run_automation call and no direct call touches:
\* the deployment's pricing fallback, the workers side by side, the ledger
\* by date, the caller's cancellation request.
fleet == << FALLBACK_MODEL, workers, run_files, ledger_at_start, store,
           cancel_requested >>

vars == << pc, auto_heal, MAX_REPAIR_ATTEMPTS, FALLBACK_MODEL, task_status, test_run,
           current_script, attempt, result, diagnosis, tracker, ledger,
           saved, calls, llm_response, repair, budget_check, workers,
           run_files, ledger_at_start, store, cancel_requested, clock,
           outcome >>

\* ------------------------------------------------------------------ bounds

\* Largest configured MAX_REPAIR_ATTEMPTS explored (0 .. MaxRepairLimit).
MaxRepairLimit == 3

\* track_request calls of one worker of the fleet.
MaxRequests == 2

\* Seconds the fleet's clock runs through.
MaxSeconds == 2

\* Calendar dates the ledger is followed through.
MaxDays == 2

\* ------------------------------------------------------- program constants

\* Config.DAILY_BUDGET default "5.00", in 10^-5 dollar.
DAILY_BUDGET == 500000

\* Config.MAX_COST_PER_RUN default "0.50", in 10^-5 dollar.
MAX_COST_PER_RUN == 50000

\* estimated_cost = 0.02 in generate_script, in 10^-5 dollar.
ESTIMATED_COST == 2000

DEFAULT_MODEL == "anthropic/claude-3.5-haiku"

\* The default of Config.FALLBACK_MODEL.
FALLBACK_MODEL_DEFAULT == "openai/gpt-4o-mini"

\* Config.MODEL_PRICING: price of 1k tokens in 10^-5 dollar.
MODEL_PRICING ==
    [m \in {"anthropic/claude-3.5-haiku", "openai/gpt-4o-mini",
            "anthropic/claude-3.5-sonnet", "openai/gpt-4"} |->
        CASE m = "anthropic/claude-3.5-haiku"  -> [input |-> 25,   output |-> 125]
          [] m = "openai/gpt-4o-mini"          -> [input |-> 15,   output |-> 60]
          [] m = "anthropic/claude-3.5-sonnet" -> [input |-> 300,  output |-> 1500]
          [] m = "openai/gpt-4"                -> [input |-> 3000, output |-> 6000]]

\* TaskStatus
TaskStatus == {"pending", "generating", "executing", "diagnosing",
               "repairing", "success", "failed"}

\* ErrorType
ErrorType == {"selector_not_found", "timeout", "network_error",
              "javascript_error", "crash", "unexpected_state", "unknown"}

\* --------------------------------------------------------------- sequences

\* str.replace(old, new) on a text whose words are the units: every
\* occurrence of the word old is replaced by the words of new.
RECURSIVE Replace(_, _, _)
Replace(text, old, new) ==
    IF text = << >> THEN << >>
    ELSE (IF Head(text) = old THEN new ELSE << Head(text) >>)
         \o Replace(Tail(text), old, new)

\* needle in text
Contains(text, needle) == \E i \in 1..Len(text) : text[i] = needle

\* ------------------------------------------------------------ cost tracker

\* calculate_cost raises KeyError: MODEL_PRICING has no entry for the model
\* and none for the fallback model.
calculate_cost_raises(model) ==
    model \notin DOMAIN MODEL_PRICING /\ FALLBACK_MODEL \notin DOMAIN MODEL_PRICING

\* CostTracker.calculate_cost
calculate_cost(model, input_tokens, output_tokens) ==
    LET pricing == IF model \in DOMAIN MODEL_PRICING
                   THEN MODEL_PRICING[model]
                   ELSE MODEL_PRICING[FALLBACK_MODEL]
    IN  input_tokens * pricing.input + output_tokens * pricing.output

\* CostTracker.track_request: the tracker after the request, and its cost.
track_request(t, model, input_tokens, output_tokens) ==
    LET cost == calculate_cost(model, input_tokens, output_tokens)
    IN  [tracker |-> [total_requests |-> t.total_requests + 1,
                      total_cost     |-> t.total_cost + cost,
                      daily          |-> t.daily + cost],
         cost    |-> cost]

\* A plausible slip: a total that reaches the ceiling is rejected.
check_budget_inclusive(t, estimated_cost) ==
    IF t.daily + estimated_cost >= DAILY_BUDGET THEN "daily"
    ELSE IF estimated_cost >= MAX_COST_PER_RUN THEN "per_run"
    ELSE "ok"

\* CostTracker.check_budget: "ok", or the ceiling that rejects.
check_budget(t, estimated_cost) ==
    IF t.daily + estimated_cost > DAILY_BUDGET THEN "daily"
    ELSE IF estimated_cost > MAX_COST_PER_RUN THEN "per_run"
    ELSE "ok"

\* ---------------------------------------------------------- error diagnosis

\* A plausible slip: the text is matched as it is, not lower-cased.
LowerSkipped(w) == w

\* str.lower() on one word of an error text.
Lower(w) ==
    CASE w = "Timeout" -> "timeout"
      [] w = "net::ERR_CONNECTION_REFUSED" -> "net::err_connection_refused"
      [] w = "Locator" -> "locator"
      [] OTHER -> w

\* keyword in word, for a lower-cased word: the keyword is the word or a
\* part of it.
KeywordIn(keyword, word) ==
    \/ keyword = word
    \/ word = "net::err_connection_refused"
         /\ keyword \in {"net::", "connection", "refused"}

\* A plausible slip: all() in place of any().
AllKeywords(error_msg, keywords) ==
    \A keyword \in keywords :
        \E i \in 1..Len(error_msg) : KeywordIn(keyword, Lower(error_msg[i]))

\* any(keyword in error_msg_lower for keyword in keywords)
AnyKeyword(error_msg, keywords) ==
    \E i \in 1..Len(error_msg) :
        \E keyword \in keywords : KeywordIn(keyword, Lower(error_msg[i]))

SelectorKeywords == {"element not found", "no element", "selector", "locator",
                     "could not find", "elementhandle"}

TimeoutKeywords == {"timeout", "timed out", "exceeded"}

NetworkKeywords == {"network", "connection", "dns", "refused", "unreachable",
                    "net::"}

JavascriptKeywords == {"javascript", "uncaught", "reference error",
                       "type error"}

CrashKeywords == {"crash", "terminated", "killed", "segmentation fault"}

\* ErrorDiagnosisAgent._rule_based_diagnosis. Confidence is in hundredths.
\* error_message None and "" are both the empty text.
rule_based_diagnosis(res) ==
    LET error_msg == res.error_message
        context == [has_llm_cost |-> FALSE, llm_cost |-> 0,
                    error_message |-> res.error_message]
    IN  IF AnyKeyword(error_msg, SelectorKeywords) THEN
            [error_type |-> "selector_not_found",
             error_message |-> << "Element selector could not locate the target element" >>,
             suggested_fixes |-> << "Try alternative selectors (CSS, XPath, text content)",
                                    "Add explicit wait: await page.wait_for_selector()",
                                    "Check if element is in iframe or shadow DOM",
                                    "Verify element is visible and not hidden by CSS" >>,
             confidence |-> 80, error_context |-> context]
        ELSE IF AnyKeyword(error_msg, TimeoutKeywords) THEN
            [error_type |-> "timeout",
             error_message |-> << "Operation exceeded time limit" >>,
             suggested_fixes |-> << "Increase timeout: timeout=60000",
                                    "Wait for network idle: wait_until='networkidle'",
                                    "Add retry logic with exponential backoff",
                                    "Check if page is loading too slowly" >>,
             confidence |-> 85, error_context |-> context]
        ELSE IF AnyKeyword(error_msg, NetworkKeywords) THEN
            [error_type |-> "network_error",
             error_message |-> << "Network connectivity or DNS resolution failure" >>,
             suggested_fixes |-> << "Verify URL is correct and accessible",
                                    "Check internet connection",
                                    "Add retry logic for failed requests",
                                    "Handle offline scenarios gracefully" >>,
             confidence |-> 90, error_context |-> context]
        ELSE IF AnyKeyword(error_msg, JavascriptKeywords) THEN
            [error_type |-> "javascript_error",
             error_message |-> << "JavaScript runtime error on the page" >>,
             suggested_fixes |-> << "Check browser console for detailed errors",
                                    "Wait for page JavaScript to load completely",
                                    "Try different browser or version",
                                    "Disable problematic scripts if possible" >>,
             confidence |-> 75, error_context |-> context]
        ELSE IF AnyKeyword(error_msg, CrashKeywords) THEN
            [error_type |-> "crash",
             error_message |-> << "Browser or process crashed unexpectedly" >>,
             suggested_fixes |-> << "Increase memory limits",
                                    "Try headless mode",
                                    "Update Playwright/browser version",
                                    "Check system resources" >>,
             confidence |-> 70, error_context |-> context]
        ELSE
            [error_type |-> "unknown",
             error_message |-> error_msg,
             suggested_fixes |-> << >>,
             confidence |-> 50, error_context |-> context]

\* The value of the local diagnosis before any diagnosis was made.
NoDiagnosis ==
    [error_type |-> "unknown", error_message |-> << >>,
     suggested_fixes |-> << >>, confidence |-> 0,
     error_context |-> [has_llm_cost |-> FALSE, llm_cost |-> 0,
                        error_message |-> << >>]]

\* What a diagnose_error call reports: raised or returned, the diagnosis,
\* the tracker after it, and how often it ran the rule tier and called the
\* model tier.
DiagReturn(d, t, rule_runs, llm_calls) ==
    [raised |-> FALSE, diagnosis |-> d, tracker |-> t,
     rule_runs |-> rule_runs, llm_calls |-> llm_calls]

DiagRaise(t, rule_runs, llm_calls) ==
    [raised |-> TRUE, diagnosis |-> NoDiagnosis, tracker |-> t,
     rule_runs |-> rule_runs, llm_calls |-> llm_calls]

\* A plausible slip: the handler logs and re-raises, as _llm_repair's does.
llm_diagnosis_except_reraise(res, t, rule_runs) ==
    DiagRaise(t, rule_runs, 1)

\* except Exception in _llm_diagnosis: fall back to the rule tier.
llm_diagnosis_except(res, t, rule_runs) ==
    DiagReturn(rule_based_diagnosis(res), t, rule_runs + 1, 1)

\* ErrorType[error_type_str.upper()], KeyError -> UNKNOWN
ErrorTypeOf(error_type_str) ==
    IF error_type_str \in ErrorType THEN error_type_str ELSE "unknown"

\* ErrorDiagnosisAgent._llm_diagnosis, on the backend's response resp:
\*   kind "call_fails"  chat.completions.create raises
\*   kind "not_json"    the content holds no JSON
\*   kind "json"        the content is a JSON object; error_type is a string,
\*                      "<absent>" or "<null>" (not a string); conf_kind is
\*                      "number", "absent" or "ill_typed".
llm_diagnosis(res, resp, t, rule_runs) ==
    IF resp.kind = "call_fails" THEN llm_diagnosis_except(res, t, rule_runs)
    ELSE
      LET tracked == track_request(t, DEFAULT_MODEL, resp.prompt_tokens,
                                   resp.completion_tokens)
      IN  IF resp.kind = "not_json" THEN
              llm_diagnosis_except(res, tracked.tracker, rule_runs)
          ELSE IF resp.error_type = "<null>" THEN
              llm_diagnosis_except(res, tracked.tracker, rule_runs)
          ELSE IF resp.conf_kind = "ill_typed" THEN
              llm_diagnosis_except(res, tracked.tracker, rule_runs)
          ELSE
              DiagReturn(
                [error_type |-> ErrorTypeOf(IF resp.error_type = "<absent>"
                                            THEN "unknown" ELSE resp.error_type),
                 error_message |-> << "root cause named by the model" >>,
                 suggested_fixes |-> << "fix named by the model" >>,
                 confidence |-> IF resp.conf_kind = "absent" THEN 50
                                ELSE resp.confidence,
                 error_context |-> [has_llm_cost |-> TRUE,
                                    llm_cost |-> tracked.cost,
                                    error_message |-> res.error_message]],
                tracked.tracker, rule_runs, 1)

\* A plausible slip: the success guard is missing.
diagnose_error_unguarded(res, resp, t) ==
    LET rule_based == rule_based_diagnosis(res)
    IN  IF rule_based.confidence < 70
        THEN llm_diagnosis(res, resp, t, 1)
        ELSE DiagReturn(rule_based, t, 1, 0)

\* A plausible slip: the threshold itself also goes to the model tier.
diagnose_error_inclusive(res, resp, t) ==
    IF res.success THEN DiagRaise(t, 0, 0)
    ELSE
      LET rule_based == rule_based_diagnosis(res)
      IN  IF rule_based.confidence <= 70
          THEN llm_diagnosis(res, resp, t, 1)
          ELSE DiagReturn(rule_based, t, 1, 0)

\* A plausible slip: the model tier is asked only within budget.
diagnose_error_budgeted(res, resp, t) ==
    IF res.success THEN DiagRaise(t, 0, 0)
    ELSE
      LET rule_based == rule_based_diagnosis(res)
      IN  IF rule_based.confidence < 70 /\ check_budget(t, ESTIMATED_COST) = "ok"
          THEN llm_diagnosis(res, resp, t, 1)
          ELSE DiagReturn(rule_based, t, 1, 0)

\* ErrorDiagnosisAgent.diagnose_error
diagnose_error(res, resp, t) ==
    IF res.success THEN DiagRaise(t, 0, 0)
    ELSE
      LET rule_based == rule_based_diagnosis(res)
      IN  IF rule_based.confidence < 70
          THEN llm_diagnosis(res, resp, t, 1)
          ELSE DiagReturn(rule_based, t, 1, 0)

\* ------------------------------------------------------------ script repair

\* GeneratedScript (task_id, language and generated_at left out: one task).
GeneratedScript(version, code, model_used, prompt_tokens, completion_tokens, cost) ==
    [version |-> version, code |-> code, model_used |-> model_used,
     prompt_tokens |-> prompt_tokens, completion_tokens |-> completion_tokens,
     cost |-> cost]

\* The value of the local current_script before the first script exists.
NoScript == GeneratedScript(0, << >>, "none", 0, 0, 0)

\* RepairAttempt
RepairAttempt(original_version, repaired_script, repair_strategy, diagnosis_used, attempt_number) ==
    [original_version |-> original_version,
     repaired_script |-> repaired_script,
     repair_strategy |-> repair_strategy,
     diagnosis_used |-> diagnosis_used,
     success |-> FALSE,
     attempt_number |-> attempt_number]

\* The value of the local repair before any repair was returned.
NoRepair == RepairAttempt(0, NoScript, << >>, NoDiagnosis, 0)

\* What a repair_script call reports: raised or returned, the RepairAttempt,
\* the tracker after it, the model-tier calls issued, those of them the
\* backend failed, and the script files saved.
RepairReturn(r, t, llm_calls) ==
    [raised |-> FALSE, repair |-> r, tracker |-> t, llm_calls |-> llm_calls,
     backend_failures |-> 0, script_saves |-> 1]

RepairRaise(t, llm_calls) ==
    [raised |-> TRUE,
     repair |-> NoRepair,
     tracker |-> t, llm_calls |-> llm_calls, backend_failures |-> llm_calls,
     script_saves |-> 0]

\* The timeout edits of _try_quick_fixes on the source text.
TimeoutQuickFix(code) ==
    LET c1 == IF ~Contains(code, "timeout=")
              THEN Replace(Replace(code, "await page.goto(", << "await page.goto(" >>),
                           "await page.goto(",
                           << "await page.goto(", "timeout=", "60000, " >>)
              ELSE code
        c2 == IF ~Contains(c1, "wait_until=")
              THEN Replace(c1, "await page.goto(",
                           << "await page.goto(", "wait_until=", "'networkidle', " >>)
              ELSE c1
    IN  [code |-> c2,
         modified |-> ~Contains(code, "timeout=") \/ ~Contains(c1, "wait_until="),
         repair_strategy |->
            (IF ~Contains(code, "timeout=")
             THEN << "Increased navigation timeout to 60s" >> ELSE << >>)
            \o (IF ~Contains(c1, "wait_until=")
                THEN << "Added network idle wait" >> ELSE << >>)]

\* The selector branch of _try_quick_fixes: it marks the script modified
\* and leaves the source as it is.
SelectorQuickFix(code) ==
    IF Contains(code, "await page.click(") /\ ~Contains(code, "wait_for_selector")
    THEN [code |-> code, modified |-> TRUE,
          repair_strategy |-> << "Would add explicit waits (LLM recommended)" >>]
    ELSE [code |-> code, modified |-> FALSE, repair_strategy |-> << >>]

\* A plausible slip: the repaired script keeps the default version 1.
QuickFixVersionDefault(script) == 1

\* version=script.version + 1 in _try_quick_fixes
QuickFixVersion(script) == script.version + 1

\* A plausible slip: the rewritten script keeps the version it replaces.
LlmRepairVersionKept(script) == script.version

\* version=script.version + 1 in _llm_repair
LlmRepairVersion(script) == script.version + 1

\* AdaptiveRepairAgent._try_quick_fixes: applied is FALSE for None.
try_quick_fixes(script, diag) ==
    LET fix == IF diag.error_type = "timeout" THEN TimeoutQuickFix(script.code)
               ELSE IF diag.error_type = "selector_not_found"
                    THEN SelectorQuickFix(script.code)
               ELSE [code |-> script.code, modified |-> FALSE,
                     repair_strategy |-> << >>]
    IN  [applied |-> fix.modified,
         repair |-> RepairAttempt(script.version,
                       GeneratedScript(QuickFixVersion(script), fix.code,
                                       "quick_fix", 0, 0, 0),
                       fix.repair_strategy, diag, 1)]

\* AdaptiveRepairAgent._llm_repair, on the backend's response resp:
\*   kind "call_fails"  chat.completions.create raises; the handler re-raises
\*   kind "ok"          the content is the source resp.code
llm_repair(script, diag, attempt_number, resp, t) ==
    IF resp.kind = "call_fails" THEN RepairRaise(t, 1)
    ELSE
      LET tracked == track_request(t, DEFAULT_MODEL, resp.prompt_tokens,
                                   resp.completion_tokens)
      IN  RepairReturn(
            RepairAttempt(script.version,
                GeneratedScript(LlmRepairVersion(script), resp.code,
                                DEFAULT_MODEL, resp.prompt_tokens,
                                resp.completion_tokens, tracked.cost),
                << "LLM repair for", diag.error_type >>, diag, attempt_number),
            tracked.tracker, 1)

\* A plausible slip: the guard compares with the loop's max_attempts.
ExceededMaxAttempts(attempt_number, max_repair) ==
    attempt_number > max_repair + 1

\* attempt_number > Config.MAX_REPAIR_ATTEMPTS in repair_script
ExceededRepairAttempts(attempt_number, max_repair) == attempt_number > max_repair

\* AdaptiveRepairAgent.repair_script
repair_script(script, diag, attempt_number, resp, t, max_repair) ==
    IF ExceededRepairAttempts(attempt_number, max_repair) THEN RepairRaise(t, 0)
    ELSE
      LET quick_fix_result == try_quick_fixes(script, diag)
      IN  IF quick_fix_result.applied
          THEN RepairReturn(quick_fix_result.repair, t, 0)
          ELSE llm_repair(script, diag, attempt_number, resp, t)

\* ------------------------------------------------------------------ inputs

\* Token usage of one model call, in k-tokens.
Usages == { [prompt_tokens |-> 1, completion_tokens |-> 1],
            [prompt_tokens |-> 2, completion_tokens |-> 2] }

\* The usage of a call with a very long prompt, in k-tokens.
HeavyUsage == [prompt_tokens |-> 2000, completion_tokens |-> 16]

\* Script sources the synthesis backend writes: one without any timeout
\* configuration or explicit wait, one with both.
PlainCode == << "await page.goto(", "url)", "await page.click(", "sel)" >>

PatchedCode == << "await page.goto(", "timeout=", "60000, ", "wait_until=",
                  "'networkidle', ", "url)", "wait_for_selector",
                  "await page.click(", "sel)" >>

Codes == { PlainCode, PatchedCode }

\* Today's total in daily_costs.json when the process starts: nothing
\* spent, or 4.90, 4.999 or 5.01 dollar spent.
InitialDaily == { 0, DAILY_BUDGET - 10000, DAILY_BUDGET - 100,
                  DAILY_BUDGET + 1000 }

\* Responses of the synthesis backend to generate_script.
GenResponses ==
    { [kind |-> "call_fails", code |-> << >>, prompt_tokens |-> 0,
       completion_tokens |-> 0] }
    \cup { [kind |-> "ok", code |-> c,
            prompt_tokens |-> IF c = PlainCode THEN 1
                              ELSE HeavyUsage.prompt_tokens,
            completion_tokens |-> IF c = PlainCode THEN 1
                                  ELSE HeavyUsage.completion_tokens] :
             c \in Codes }

\* Responses of the synthesis backend to _llm_repair.
RepairResponses ==
    { [kind |-> "call_fails", code |-> << >>, prompt_tokens |-> 0,
       completion_tokens |-> 0] }
    \cup { [kind |-> "ok", code |-> PlainCode, prompt_tokens |-> 2,
            completion_tokens |-> 2] }

\* The response slot of the diagnosis tier before any call.
NoResponse ==
    [kind |-> "none", error_type |-> "<absent>", conf_kind |-> "absent",
     confidence |-> 0, prompt_tokens |-> 0, completion_tokens |-> 0]

DiagResponse(kind, error_type, conf_kind, confidence, usage) ==
    [kind |-> kind, error_type |-> error_type, conf_kind |-> conf_kind,
     confidence |-> confidence, prompt_tokens |-> usage.prompt_tokens,
     completion_tokens |-> usage.completion_tokens]

\* Responses of the analysis backend to _llm_diagnosis inside a run.
RunDiagResponses ==
    { DiagResponse("call_fails", "<absent>", "absent", 0,
                   [prompt_tokens |-> 0, completion_tokens |-> 0]),
      DiagResponse("not_json", "<absent>", "absent", 0,
                   [prompt_tokens |-> 1, completion_tokens |-> 1]),
      DiagResponse("json", "timeout", "number", 90,
                   [prompt_tokens |-> 1, completion_tokens |-> 1]) }

\* Responses of the analysis backend to a direct diagnose_error call.
DiagResponses ==
    RunDiagResponses
    \cup { DiagResponse("json", e, k, c, u) :
             e \in {"timeout", "unexpected_state", "bogus", "<absent>", "<null>"},
             k \in {"number", "absent", "ill_typed"},
             c \in {30, 150},
             u \in Usages }

\* Error texts of a failed execution.
ErrorTexts == { << >>, << "boom" >>, << "Timeout" >>,
                << "net::ERR_CONNECTION_REFUSED" >>,
                << "Locator", "Timeout" >>, << "uncaught", "crash" >>,
                << "crash" >>, << "timed out", "dns" >> }

ExecutionResult(script_version, success, error_message) ==
    [script_version |-> script_version, success |-> success,
     error_message |-> error_message]

\* The value of the local result before the first execution.
NoResult == ExecutionResult(0, FALSE, << >>)

\* What the execution backend does with one script inside a run: it
\* returns a success, returns a failure with an error text, or raises.
ExecOutcomes ==
    { [kind |-> "returns", success |-> TRUE, error_message |-> << >>],
      [kind |-> "raises", success |-> FALSE, error_message |-> << "boom" >>] }
    \cup { [kind |-> "returns", success |-> FALSE, error_message |-> m] :
             m \in { << "Timeout" >>, << "net::ERR_CONNECTION_REFUSED" >>,
                     << "Locator", "Timeout" >> } }

\* ExecutionResults handed to a direct diagnose_error call.
DirectResults ==
    { ExecutionResult(1, s, m) : s \in BOOLEAN, m \in ErrorTexts }

\* Script sources handed to a direct repair_script call: also one that
\* navigates without the text "await page.goto(", and one whose goto call
\* has a timeout and no wait_until.
NoGotoCode == << "await tab.goto(", "url)", "await tab.click(", "sel)" >>

TimeoutOnlyCode == << "await page.goto(", "timeout=", "30000, ", "url)" >>

DirectScripts ==
    { GeneratedScript(v, c, DEFAULT_MODEL, 1, 1, 150) :
        v \in {1, 2},
        c \in {PlainCode, PatchedCode, NoGotoCode, TimeoutOnlyCode} }

\* Diagnoses handed to a direct repair_script call: one of each kind the
\* repair tiers tell apart (timeout, selector_not_found, others).
DirectDiagnoses ==
    { rule_based_diagnosis(ExecutionResult(1, FALSE, m)) :
        m \in { << "Timeout" >>, << "Locator", "Timeout" >>,
                << "net::ERR_CONNECTION_REFUSED" >>, << "boom" >> } }

\* Estimates handed to a direct check_budget call, in 10^-5 dollar:
\* 0.00, 0.02, 0.05, 0.10, 0.20, 0.50, 0.60.
Estimates == {0, 2000, 5000, 10000, 20000, 50000, 60000}

\* ------------------------------------------------------------ control loop

\* TestRun(task=task)
NewTestRun ==
    [scripts |-> << >>, executions |-> << >>, diagnoses |-> << >>,
     repairs |-> << >>, final_status |-> "pending", total_cost |-> 0,
     completed_at |-> 0]

\* TestRun.mark_complete
mark_complete(tr, status, now) ==
    [tr EXCEPT !.final_status = status, !.completed_at = now]

\* A plausible slip: the cost replaces the total.
add_cost_overwrite(tr, cost) == [tr EXCEPT !.total_cost = cost]

\* TestRun.add_cost
add_cost(tr, cost) == [tr EXCEPT !.total_cost = @ + cost]

\* Nothing was asked of any backend or tier yet. synthesis counts the
\* generation requests, synthesis_failures the generation and repair
\* requests the synthesis backend answered with an error, budget_checks
\* the check_budget calls, execution_failures the executions in which the
\* execution backend raised.
NoCalls == [synthesis |-> 0, synthesis_failures |-> 0, execution |-> 0,
            rule_diagnosis |-> 0, llm_diagnosis |-> 0, llm_repair |-> 0,
            script_saves |-> 0, budget_checks |-> 0, execution_failures |-> 0]

\* No check_budget call was made yet.
NoBudgetCheck == [estimated_cost |-> 0, answer |-> "none"]

\* budget_ok, message = check_budget(estimated_cost), as the caller sees it.
BudgetCheck(t, estimated_cost) ==
    [estimated_cost |-> estimated_cost,
     answer |-> check_budget(t, estimated_cost)]

\* A plausible slip: the handler returns the run without sealing it.
fatal_except_unsealed(tr, now) ==
    [test_run |-> tr, outcome |-> "returned"]

\* A plausible slip: the handler seals the run and re-raises.
fatal_except_reraise(tr, now) ==
    [test_run |-> mark_complete(tr, "failed", now), outcome |-> "raised"]

\* except Exception as e: mark_complete(FAILED); return test_run
fatal_except(tr, now) ==
    [test_run |-> mark_complete(tr, "failed", now), outcome |-> "returned"]

\* A plausible slip: the initial attempt is not counted.
max_attempts_repairs_only == MAX_REPAIR_ATTEMPTS

\* max_attempts = Config.MAX_REPAIR_ATTEMPTS + 1
max_attempts == MAX_REPAIR_ATTEMPTS + 1

\* A plausible slip: the counter is not advanced.
NextAttemptStuck(a) == a

\* attempt += 1
NextAttempt(a) == a + 1

\* A plausible slip: the handler's result carries no error message.
execute_except_silent(script_version, exec_error) ==
    [script_version |-> script_version, success |-> FALSE, error_message |-> << >>]

\* except Exception as exec_error: the failed ExecutionResult of the handler
execute_except(script_version, exec_error) ==
    [script_version |-> script_version, success |-> FALSE,
     error_message |-> << "Execution failed to start:" >> \o exec_error]

\* A plausible slip: the handler leaves the loop without sealing the run.
repair_except_unsealed(tr, now) == tr

\* except Exception as e in STEP 4: mark_complete(FAILED); break
repair_except(tr, now) == mark_complete(tr, "failed", now)

\* if result.success
ExecutionSucceeded(res) == res.success

\* A plausible slip: the repaired script is not made current.
NextCurrentScriptStale(cur, rep) == cur

\* current_script = repair.repaired_script
NextCurrentScript(cur, rep) == rep.repaired_script

\* A plausible slip: the comparison is strict.
GiveUpStrict(ah, a, max) == ~ah \/ a > max

\* if not auto_heal or attempt >= max_attempts
GiveUp(ah, a, max) == ~ah \/ a >= max

\* The worker processes of the fleet.
Workers == {1, 2}

\* No task was created yet.
NoTask == 0

\* AutomationTask.id: datetime.now().strftime("%Y%m%d_%H%M%S"), the second
\* in which the task is created.
TaskId(now) == now

\* CostTracker(): the totals at zero, today's bucket as loaded.
NewCostTracker(persisted) ==
    [total_requests |-> 0, total_cost |-> 0, daily |-> persisted]

\* A worker that was not started.
NoWorker == [tracker |-> NewCostTracker(0), task_id |-> NoTask, saved |-> FALSE]

\* The calendar dates daily_costs.json has buckets for.
Dates == 1..MaxDays

\* daily_costs.json: kind "json" (readable), "corrupt" (not readable as
\* JSON) or "missing"; buckets is the total per date that was written, 0
\* for a date without key.
LedgerFile(kind, buckets) == [kind |-> kind, buckets |-> buckets]

\* A ledger nothing was written to.
NoBuckets == [d \in Dates |-> 0]

\* A plausible slip: the file is not read.
load_daily_costs_skipped(file) == NoBuckets

\* CostTracker._load_daily_costs: {} when the file is missing or json.load
\* raises.
load_daily_costs(file) ==
    IF file.kind = "json" THEN file.buckets ELSE NoBuckets

\* CostTracker._save_daily_costs: the whole mapping is written.
save_daily_costs(daily_costs) == LedgerFile("json", daily_costs)

\* The governor of a process that was not started.
NoGovernor ==
    [status |-> "down", total_requests |-> 0, total_cost |-> 0,
     daily_costs |-> NoBuckets]

\* CostTracker.__init__: the summary at zero, daily_costs as loaded.
NewGovernor(file) ==
    [status |-> "started", total_requests |-> 0, total_cost |-> 0,
     daily_costs |-> load_daily_costs(file)]

\* The ledger by date with no governor on it: the file, the file as it was
\* at the start, the governor, date.today(), and per date the costs the
\* governors recorded and the number of their requests.
NewStore(file) ==
    [file |-> file, file_at_start |-> file, governor |-> NoGovernor,
     today |-> 1, recorded |-> NoBuckets, requests |-> 0]

Init ==
    /\ pc = "idle"
    /\ auto_heal = FALSE
    /\ MAX_REPAIR_ATTEMPTS \in 0..MaxRepairLimit
    /\ FALLBACK_MODEL = FALLBACK_MODEL_DEFAULT
    /\ task_status = "pending"
    /\ test_run = NewTestRun
    /\ current_script = NoScript
    /\ attempt = 0
    /\ result = NoResult
    /\ diagnosis = NoDiagnosis
    /\ ledger \in InitialDaily
    /\ tracker = [total_requests |-> 0, total_cost |-> 0, daily |-> ledger]
    /\ saved = << >>
    /\ calls = NoCalls
    /\ llm_response = NoResponse
    /\ repair = NoRepair
    /\ budget_check = NoBudgetCheck
    /\ workers = [w \in Workers |-> NoWorker]
    /\ run_files = {}
    /\ ledger_at_start = ledger
    /\ store = NewStore(LedgerFile("missing", NoBuckets))
    /\ cancel_requested = FALSE
    /\ clock = 1
    /\ outcome = "none"

\* The outer handler of run_automation takes over: the call ends.
Fatal(tr) ==
    LET h == fatal_except(tr, clock + 1)
    IN  /\ test_run' = h.test_run
        /\ outcome' = h.outcome
        /\ pc' = "done"

\* run_automation is called: the task and the TestRun shell are created.
RunAutomation(ah) ==
    /\ pc = "idle"
    /\ auto_heal' = ah
    /\ test_run' = NewTestRun
    /\ pc' = "generate"
    /\ clock' = clock + 1
    /\ UNCHANGED << fleet, MAX_REPAIR_ATTEMPTS, task_status, current_script, attempt,
                    result, diagnosis, tracker, ledger, saved, calls,
                    llm_response, repair, budget_check, outcome >>

\* STEP 1: generate_script, then the loop is entered (attempt = 0, the
\* while test, attempt += 1).
GenerateScript(resp) ==
    /\ pc = "generate"
    /\ task_status' = "generating"
    /\ clock' = clock + 1
    /\ budget_check' = BudgetCheck(tracker, ESTIMATED_COST)
    /\ IF check_budget(tracker, ESTIMATED_COST) # "ok" THEN
          /\ Fatal(test_run)
          /\ calls' = [calls EXCEPT !.budget_checks = @ + 1]
          /\ UNCHANGED << current_script, attempt, tracker, ledger >>
       ELSE IF resp.kind = "call_fails" THEN
          /\ Fatal(test_run)
          /\ calls' = [calls EXCEPT !.budget_checks = @ + 1,
                                    !.synthesis = @ + 1,
                                    !.synthesis_failures = @ + 1]
          /\ UNCHANGED << current_script, attempt, tracker, ledger >>
       ELSE
          LET tracked == track_request(tracker, DEFAULT_MODEL,
                                       resp.prompt_tokens, resp.completion_tokens)
              script == GeneratedScript(1, resp.code, DEFAULT_MODEL,
                                        resp.prompt_tokens,
                                        resp.completion_tokens, tracked.cost)
          IN  /\ tracker' = tracked.tracker
              /\ ledger' = tracked.tracker.daily
              /\ calls' = [calls EXCEPT !.budget_checks = @ + 1,
                                        !.synthesis = @ + 1,
                                        !.script_saves = @ + 1]
              /\ test_run' = add_cost(
                     [test_run EXCEPT !.scripts = Append(@, script)],
                     script.cost)
              /\ current_script' = script
              /\ IF 0 < max_attempts
                 THEN attempt' = NextAttempt(0) /\ pc' = "execute"
                 ELSE attempt' = 0 /\ pc' = "save"
              /\ UNCHANGED outcome
    /\ UNCHANGED << fleet, auto_heal, MAX_REPAIR_ATTEMPTS, result, diagnosis, saved,
                    llm_response, repair >>

\* STEP 2: execute_script returns or raises; the result is appended, and
\* the run is sealed on success, and on failure without auto-heal or
\* without attempts left.
Execute(out) ==
    /\ pc = "execute"
    /\ clock' = clock + 1
    /\ LET res == IF out.kind = "raises"
                  THEN execute_except(current_script.version, out.error_message)
                  ELSE ExecutionResult(current_script.version, out.success,
                                       out.error_message)
           tr == [test_run EXCEPT !.executions = Append(@, res)]
       IN  /\ result' = res
           /\ IF ExecutionSucceeded(res) THEN
                 /\ test_run' = mark_complete(tr, "success", clock + 1)
                 /\ pc' = "save"
              ELSE IF GiveUp(auto_heal, attempt, max_attempts) THEN
                 /\ test_run' = mark_complete(tr, "failed", clock + 1)
                 /\ pc' = "save"
              ELSE
                 /\ test_run' = tr
                 /\ pc' = "diagnose"
    /\ calls' = [calls EXCEPT !.execution = @ + 1,
                              !.execution_failures =
                                  @ + (IF out.kind = "raises" THEN 1 ELSE 0)]
    /\ UNCHANGED << fleet, auto_heal, MAX_REPAIR_ATTEMPTS, task_status, current_script,
                    attempt, diagnosis, tracker, ledger, saved, llm_response,
                    repair, budget_check, outcome >>

\* The bookkeeping of one diagnose_error call.
DiagnosisEffects(d, resp) ==
    /\ tracker' = d.tracker
    /\ ledger' = IF d.tracker = tracker THEN ledger ELSE d.tracker.daily
    /\ calls' = [calls EXCEPT !.rule_diagnosis = @ + d.rule_runs,
                              !.llm_diagnosis = @ + d.llm_calls]
    /\ llm_response' = IF d.llm_calls > 0 THEN resp ELSE NoResponse

\* STEP 3: diagnose_error
Diagnose(resp) ==
    /\ pc = "diagnose"
    /\ clock' = clock + 1
    /\ LET d == diagnose_error(result, resp, tracker)
       IN  /\ DiagnosisEffects(d, resp)
           /\ IF d.raised THEN
                 /\ Fatal(test_run)
                 /\ UNCHANGED diagnosis
              ELSE
                 /\ diagnosis' = d.diagnosis
                 /\ test_run' = [test_run EXCEPT !.diagnoses = Append(@, d.diagnosis)]
                 /\ pc' = "repair"
                 /\ UNCHANGED outcome
    /\ UNCHANGED << fleet, auto_heal, MAX_REPAIR_ATTEMPTS, task_status, current_script,
                    attempt, result, saved, repair, budget_check >>

\* STEP 4: repair_script; on success the loop goes round (the while test,
\* attempt += 1), on failure the run is sealed as failed.
Repair(resp) ==
    /\ pc = "repair"
    /\ clock' = clock + 1
    /\ LET r == repair_script(current_script, diagnosis, attempt, resp,
                              tracker, MAX_REPAIR_ATTEMPTS)
       IN  /\ tracker' = r.tracker
           /\ ledger' = IF r.tracker = tracker THEN ledger ELSE r.tracker.daily
           /\ calls' = [calls EXCEPT !.llm_repair = @ + r.llm_calls,
                                     !.synthesis_failures = @ + r.backend_failures,
                                     !.script_saves = @ + r.script_saves]
           /\ IF r.raised THEN
                 /\ test_run' = repair_except(test_run, clock + 1)
                 /\ pc' = "save"
                 /\ UNCHANGED << current_script, attempt, repair >>
              ELSE
                 LET cur == NextCurrentScript(current_script, r.repair)
                 IN  /\ repair' = r.repair
                     /\ test_run' = [add_cost(
                                       [test_run EXCEPT !.repairs = Append(@, r.repair)],
                                       r.repair.repaired_script.cost)
                                     EXCEPT !.scripts = Append(@, cur)]
                     /\ current_script' = cur
                     /\ IF attempt < max_attempts
                        THEN attempt' = NextAttempt(attempt) /\ pc' = "execute"
                        ELSE attempt' = attempt /\ pc' = "save"
    /\ UNCHANGED << fleet, auto_heal, MAX_REPAIR_ATTEMPTS, task_status, result,
                    diagnosis, saved, llm_response, budget_check, outcome >>

\* _save_test_run, the summary and the return; a write that fails ends in
\* the outer handler.
Save(written) ==
    /\ pc = "save"
    /\ clock' = clock + 1
    /\ IF written THEN
          /\ saved' = Append(saved, test_run)
          /\ pc' = "done"
          /\ outcome' = "returned"
          /\ UNCHANGED test_run
       ELSE
          /\ Fatal(test_run)
          /\ UNCHANGED saved
    /\ UNCHANGED << fleet, auto_heal, MAX_REPAIR_ATTEMPTS, task_status, current_script,
                    attempt, result, diagnosis, tracker, ledger, calls,
                    llm_response, repair, budget_check >>

\* diagnose_error is called on its own, on any ExecutionResult.
DiagnoseDirect(res, resp) ==
    /\ pc = "idle"
    /\ clock' = clock + 1
    /\ result' = res
    /\ LET d == diagnose_error(res, resp, tracker)
       IN  /\ DiagnosisEffects(d, resp)
           /\ diagnosis' = d.diagnosis
           /\ outcome' = IF d.raised THEN "diagnose_raised" ELSE "diagnose_returned"
    /\ pc' = "done"
    /\ UNCHANGED << fleet, auto_heal, MAX_REPAIR_ATTEMPTS, task_status, test_run,
                    current_script, attempt, saved, repair, budget_check >>

\* The bookkeeping of one repair_script call.
RepairEffects(r) ==
    /\ tracker' = r.tracker
    /\ ledger' = IF r.tracker = tracker THEN ledger ELSE r.tracker.daily
    /\ calls' = [calls EXCEPT !.llm_repair = @ + r.llm_calls,
                              !.synthesis_failures = @ + r.backend_failures,
                              !.script_saves = @ + r.script_saves]
    /\ repair' = r.repair
    /\ outcome' = IF r.raised THEN "repair_raised" ELSE "repair_returned"

\* repair_script is called on its own, on any script and diagnosis.
RepairDirect(script, diag, attempt_number, resp) ==
    /\ pc = "idle"
    /\ clock' = clock + 1
    /\ current_script' = script
    /\ diagnosis' = diag
    /\ attempt' = attempt_number
    /\ RepairEffects(repair_script(script, diag, attempt_number, resp, tracker,
                                   MAX_REPAIR_ATTEMPTS))
    /\ pc' = "repaired"
    /\ UNCHANGED << fleet, auto_heal, MAX_REPAIR_ATTEMPTS, task_status, test_run,
                    result, saved, llm_response, budget_check >>

\* repair_script is called again, with the same diagnosis, on the script
\* the first call returned.
RepairAgain(resp) ==
    /\ pc = "repaired"
    /\ outcome = "repair_returned"
    /\ clock' = clock + 1
    /\ current_script' = repair.repaired_script
    /\ RepairEffects(repair_script(repair.repaired_script, diagnosis, attempt,
                                   resp, tracker, MAX_REPAIR_ATTEMPTS))
    /\ pc' = "repaired_again"
    /\ UNCHANGED << fleet, auto_heal, MAX_REPAIR_ATTEMPTS, task_status, test_run,
                    attempt, result, diagnosis, saved, llm_response,
                    budget_check >>

\* check_budget is called on its own.
CheckBudgetDirect(estimated_cost) ==
    /\ pc = "idle"
    /\ clock' = clock + 1
    /\ budget_check' = BudgetCheck(tracker, estimated_cost)
    /\ calls' = [calls EXCEPT !.budget_checks = @ + 1]
    /\ outcome' = "budget_checked"
    /\ pc' = "checked"
    /\ UNCHANGED << fleet, auto_heal, MAX_REPAIR_ATTEMPTS, task_status, test_run,
                    current_script, attempt, result, diagnosis, tracker,
                    ledger, saved, llm_response, repair >>

\* The caller asks for the run to be cancelled, between two executions of
\* a run in progress (here: once the first execution has failed).
\* run_automation takes no cancellation token and no step of the loop
\* looks for a request.
RequestCancel ==
    /\ pc = "diagnose"
    /\ attempt = 1
    /\ ~cancel_requested
    /\ cancel_requested' = TRUE
    /\ UNCHANGED << pc, auto_heal, MAX_REPAIR_ATTEMPTS, FALLBACK_MODEL,
                    task_status, test_run, current_script, attempt, result,
                    diagnosis, tracker, ledger, saved, calls, llm_response,
                    repair, budget_check, workers, run_files,
                    ledger_at_start, store, clock, outcome >>

Next ==
    \/ \E ah \in BOOLEAN : RunAutomation(ah)
    \/ \E resp \in GenResponses : GenerateScript(resp)
    \/ \E out \in ExecOutcomes : Execute(out)
    \/ \E resp \in RunDiagResponses : Diagnose(resp)
    \/ \E resp \in RepairResponses : Repair(resp)
    \/ \E written \in BOOLEAN : Save(written)
    \/ \E res \in DirectResults, resp \in DiagResponses : DiagnoseDirect(res, resp)
    \/ \E script \in DirectScripts, diag \in DirectDiagnoses,
          attempt_number \in 1..(MaxRepairLimit + 1), resp \in RepairResponses :
            RepairDirect(script, diag, attempt_number, resp)
    \/ \E resp \in RepairResponses : RepairAgain(resp)
    \/ \E estimated_cost \in Estimates : CheckBudgetDirect(estimated_cost)
    \/ RequestCancel

Spec == Init /\ [][Next]_vars

\* ------------------------------------------------------------------- fleet

\* Values FALLBACK_MODEL is configured with: the default, another priced
\* model, a model MODEL_PRICING has no entry for.
FallbackModels == { FALLBACK_MODEL_DEFAULT, "openai/gpt-4",
                    "meta-llama/llama-3-8b" }

\* Models whose requests are tracked: priced ones and one without entry.
TrackedModels == { DEFAULT_MODEL, "anthropic/claude-3.5-sonnet",
                   "google/gemini-flash" }

\* Several worker processes start side by side, each with its own
\* CostTracker loaded from the same daily_costs.json.
FleetInit ==
    /\ pc = "fleet"
    /\ auto_heal = FALSE
    /\ MAX_REPAIR_ATTEMPTS = MaxRepairLimit
    /\ FALLBACK_MODEL \in FallbackModels
    /\ task_status = "pending"
    /\ test_run = NewTestRun
    /\ current_script = NoScript
    /\ attempt = 0
    /\ result = NoResult
    /\ diagnosis = NoDiagnosis
    /\ ledger \in {0, DAILY_BUDGET - 10000}
    /\ tracker = NewCostTracker(ledger)
    /\ saved = << >>
    /\ calls = NoCalls
    /\ llm_response = NoResponse
    /\ repair = NoRepair
    /\ budget_check = NoBudgetCheck
    /\ workers = [w \in Workers |->
                    [tracker |-> NewCostTracker(ledger), task_id |-> NoTask,
                     saved |-> FALSE]]
    /\ run_files = {}
    /\ ledger_at_start = ledger
    /\ store = NewStore(LedgerFile("missing", NoBuckets))
    /\ cancel_requested = FALSE
    /\ clock = 1
    /\ outcome = "none"

\* What no step of the fleet touches: the state of the one run.
run == << pc, auto_heal, MAX_REPAIR_ATTEMPTS, FALLBACK_MODEL, task_status,
         test_run, current_script, attempt, result, diagnosis, tracker,
         saved, calls, llm_response, repair, budget_check, ledger_at_start,
         cancel_requested >>

\* A second passes.
Tick ==
    /\ pc = "fleet"
    /\ clock < MaxSeconds
    /\ clock' = clock + 1
    /\ UNCHANGED << run, store, workers, run_files, ledger, outcome >>

\* Worker w enters run_automation: task = AutomationTask(...).
CreateTask(w) ==
    /\ pc = "fleet"
    /\ workers[w].task_id = NoTask
    /\ workers' = [workers EXCEPT ![w].task_id = TaskId(clock)]
    /\ UNCHANGED << run, store, run_files, ledger, clock, outcome >>

\* Worker w's CostTracker.track_request: the cost is added to the worker's
\* own totals and its daily_costs is written over the file; KeyError of
\* calculate_cost leaves all as it was.
TrackRequest(w, model, usage) ==
    /\ pc = "fleet"
    /\ workers[w].tracker.total_requests < MaxRequests
    /\ IF calculate_cost_raises(model) THEN
          /\ outcome' = "track_raised"
          /\ UNCHANGED << workers, ledger >>
       ELSE
          LET tracked == track_request(workers[w].tracker, model,
                                       usage.prompt_tokens,
                                       usage.completion_tokens)
          IN  /\ workers' = [workers EXCEPT ![w].tracker = tracked.tracker]
              /\ ledger' = tracked.tracker.daily
              /\ outcome' = "tracked"
    /\ UNCHANGED << run, store, run_files, clock >>

\* Worker w's _save_test_run: logs/<task id>/test_run.json is written.
SaveTestRun(w) ==
    /\ pc = "fleet"
    /\ workers[w].task_id # NoTask
    /\ ~workers[w].saved
    /\ run_files' = { f \in run_files : f.task_id # workers[w].task_id }
                      \cup { [task_id |-> workers[w].task_id, written_by |-> w] }
    /\ workers' = [workers EXCEPT ![w].saved = TRUE]
    /\ UNCHANGED << run, store, ledger, clock, outcome >>

FleetNext ==
    \/ Tick
    \/ \E w \in Workers : CreateTask(w)
    \/ \E w \in Workers, model \in TrackedModels :
          TrackRequest(w, model, [prompt_tokens |-> 1, completion_tokens |-> 1])
    \/ \E w \in Workers : SaveTestRun(w)

FleetSpec == FleetInit /\ [][FleetNext]_vars

\* ------------------------------------------------------------------ ledger

\* daily_costs.json when the first governor starts: missing, readable or
\* corrupt, with nothing or 4.00 dollar written for the first date.
LedgerFiles ==
    { LedgerFile("missing", NoBuckets) }
    \cup { LedgerFile(k, [d \in Dates |-> IF d = 1 THEN spent ELSE 0]) :
             k \in {"json", "corrupt"}, spent \in {0, 400000} }

\* One governor at a time on the ledger by date.
LedgerInit ==
    /\ pc = "ledger"
    /\ auto_heal = FALSE
    /\ MAX_REPAIR_ATTEMPTS = MaxRepairLimit
    /\ FALLBACK_MODEL = FALLBACK_MODEL_DEFAULT
    /\ task_status = "pending"
    /\ test_run = NewTestRun
    /\ current_script = NoScript
    /\ attempt = 0
    /\ result = NoResult
    /\ diagnosis = NoDiagnosis
    /\ ledger = 0
    /\ tracker = NewCostTracker(ledger)
    /\ saved = << >>
    /\ calls = NoCalls
    /\ llm_response = NoResponse
    /\ repair = NoRepair
    /\ budget_check = NoBudgetCheck
    /\ workers = [w \in Workers |-> NoWorker]
    /\ run_files = {}
    /\ ledger_at_start = ledger
    /\ store \in { NewStore(f) : f \in LedgerFiles }
    /\ cancel_requested = FALSE
    /\ clock = 1
    /\ outcome = "none"

\* A process starts (or starts again): get_cost_tracker() builds the
\* CostTracker, which reads the file.
StartGovernor ==
    /\ pc = "ledger"
    /\ store' = [store EXCEPT !.governor = NewGovernor(store.file)]
    /\ UNCHANGED << run, workers, run_files, ledger, clock, outcome >>

\* The governor's track_request on date.today(): the cost goes into the
\* summary and into today's bucket, and the mapping is written to the file.
TrackOnDate(model, usage) ==
    /\ pc = "ledger"
    /\ store.governor.status = "started"
    /\ store.requests < MaxRequests
    /\ ~calculate_cost_raises(model)
    /\ LET g == store.governor
           today == store.today
           tracked == track_request(
                         [total_requests |-> g.total_requests,
                          total_cost |-> g.total_cost,
                          daily |-> g.daily_costs[today]],
                         model, usage.prompt_tokens, usage.completion_tokens)
           daily_costs == [g.daily_costs EXCEPT ![today] = tracked.tracker.daily]
       IN  store' = [store EXCEPT
                       !.governor = [status |-> "started",
                                     total_requests |-> tracked.tracker.total_requests,
                                     total_cost |-> tracked.tracker.total_cost,
                                     daily_costs |-> daily_costs],
                       !.file = save_daily_costs(daily_costs),
                       !.recorded[today] = @ + tracked.cost,
                       !.requests = @ + 1]
    /\ UNCHANGED << run, workers, run_files, ledger, clock, outcome >>

\* Midnight: date.today() moves on.
NextDay ==
    /\ pc = "ledger"
    /\ store.today < MaxDays
    /\ store' = [store EXCEPT !.today = @ + 1]
    /\ UNCHANGED << run, workers, run_files, ledger, clock, outcome >>

LedgerNext ==
    \/ StartGovernor
    \/ \E model \in TrackedModels, usage \in Usages : TrackOnDate(model, usage)
    \/ NextDay

LedgerSpec == LedgerInit /\ [][LedgerNext]_vars

\* ------------------------------------------------------------------ claims

Sealed == test_run.final_status \in {"success", "failed"}

\* The call that ended was run_automation, and it returned its TestRun.
RunReturned == pc = "done" /\ outcome = "returned"

\* The call that ended was a direct diagnose_error.
DirectDiagnosisDone ==
    pc = "done" /\ outcome \in {"diagnose_raised", "diagnose_returned"}

\* C1: the TestRun run_automation returns has final_status success or
\* failed, whatever the backends did and whatever auto_heal is.
C1_FinalStatusTerminal == RunReturned => Sealed

\* C1 witness: a run with auto-heal returned after at least one repair.
C1_Witness ==
    RunReturned /\ auto_heal /\ Len(test_run.repairs) >= 1 /\ Sealed

\* C2: once mark_complete has set final_status to success or failed, no
\* later step of the run changes final_status or completed_at.
C2_SealedOnce ==
    [][Sealed => /\ test_run'.final_status = test_run.final_status
                 /\ test_run'.completed_at = test_run.completed_at]_vars

\* C3: run_automation never raises to its caller: a call that has ended has
\* returned its TestRun, whichever step failed.
C3_NeverRaises ==
    /\ outcome # "raised"
    /\ (pc = "done" /\ ~DirectDiagnosisDone) => outcome = "returned"

\* C3 witness: the run was returned although persisting it failed after an
\* execution.
C3_Witness ==
    RunReturned /\ saved = << >> /\ Len(test_run.executions) >= 1

\* C4: len(test_run.repairs) <= MAX_REPAIR_ATTEMPTS in every state.
C4_RepairsBounded == Len(test_run.repairs) <= MAX_REPAIR_ATTEMPTS

\* C4 witness: a run used up a repair budget of at least two.
C4_Witness ==
    MAX_REPAIR_ATTEMPTS >= 2 /\ Len(test_run.repairs) = MAX_REPAIR_ATTEMPTS

\* C5: the versions in test_run.scripts are 1, 2, ..., len(scripts) in list
\* order.
C5_VersionsSequential ==
    \A i \in 1..Len(test_run.scripts) : test_run.scripts[i].version = i

\* C5 witness: the ledger holds a version of each repair tier.
C5_Witness ==
    /\ Len(test_run.scripts) >= 3
    /\ \E i \in 2..Len(test_run.scripts) :
          test_run.scripts[i].model_used = "quick_fix"
    /\ \E i \in 2..Len(test_run.scripts) :
          test_run.scripts[i].model_used = DEFAULT_MODEL

NetworkFailure(e) ==
    ~e.success /\ e.error_message = << "net::ERR_CONNECTION_REFUSED" >>

\* auto-heal on, the initial synthesis and every repair succeeded, every
\* execution failed with a network error.
AlwaysNetworkFailure ==
    /\ auto_heal
    /\ Len(test_run.scripts) >= 1
    /\ calls.synthesis_failures = 0
    /\ \A i \in 1..Len(test_run.executions) :
          NetworkFailure(test_run.executions[i])

\* C6: with auto_heal on, MAX_REPAIR_ATTEMPTS = N, synthesis and repairs
\* succeeding and every execution failing with a network error, the
\* returned TestRun has N+1 executions, N diagnoses, N repairs and
\* final_status failed.
C6_NetworkFailureCounts ==
    (RunReturned /\ AlwaysNetworkFailure) =>
        /\ Len(test_run.executions) = MAX_REPAIR_ATTEMPTS + 1
        /\ Len(test_run.diagnoses) = MAX_REPAIR_ATTEMPTS
        /\ Len(test_run.repairs) = MAX_REPAIR_ATTEMPTS
        /\ test_run.final_status = "failed"

\* C6 witness: the 4 / 3 / 3 run of N = 3.
C6_Witness ==
    /\ RunReturned /\ AlwaysNetworkFailure
    /\ MAX_REPAIR_ATTEMPTS = 3
    /\ Len(test_run.executions) = 4
    /\ Len(test_run.diagnoses) = 3
    /\ Len(test_run.repairs) = 3

\* The steps of the longest run: the call, the generation, three steps
\* (execute, diagnose, repair) for each repair, the last execution and
\* the save. Every step advances the clock from 1.
StepBound == 3 * MAX_REPAIR_ATTEMPTS + 5

\* C7: every backend call returning or raising, the run performs at most
\* MAX_REPAIR_ATTEMPTS + 1 executions and terminates sealed as success or
\* failed: it takes no more than StepBound steps, and it leaves the loop,
\* and returns, sealed.
C7_Terminates ==
    /\ calls.execution <= MAX_REPAIR_ATTEMPTS + 1
    /\ Len(test_run.executions) = calls.execution
    /\ clock <= StepBound
    /\ pc = "save" => Sealed
    /\ RunReturned => Sealed

\* C7 witness: a run ended after MAX_REPAIR_ATTEMPTS + 1 executions, the
\* last one a success.
C7_Witness ==
    /\ RunReturned
    /\ MAX_REPAIR_ATTEMPTS >= 2
    /\ calls.execution = MAX_REPAIR_ATTEMPTS + 1
    /\ test_run.final_status = "success"

\* C8: executions[i].script_version = scripts[i].version = i for every
\* recorded execution, and a run that returns through the loop has
\* executed every version: len(executions) = len(scripts).
C8_EachVersionExecutedOnce ==
    /\ Len(test_run.executions) <= Len(test_run.scripts)
    /\ \A i \in 1..Len(test_run.executions) :
          /\ test_run.executions[i].script_version = i
          /\ test_run.scripts[i].version = i
    /\ (RunReturned /\ Len(test_run.scripts) >= 1) =>
          Len(test_run.executions) = Len(test_run.scripts)

\* C8 witness: a returned run with three executed versions.
C8_Witness == RunReturned /\ Len(test_run.executions) >= 3

\* C9: diagnose_error on a successful ExecutionResult raises and returns no
\* diagnosis, runs no tier and records no cost; and the loop only calls
\* diagnose_error on a failed result.
C9_SuccessRejected ==
    /\ (DirectDiagnosisDone /\ result.success) =>
          /\ outcome = "diagnose_raised"
          /\ diagnosis = NoDiagnosis
          /\ calls.rule_diagnosis = 0
          /\ calls.llm_diagnosis = 0
          /\ tracker.total_requests = 0
          /\ tracker.total_cost = 0
          /\ tracker.daily \in InitialDaily
          /\ ledger = tracker.daily
    /\ pc = "diagnose" =>
          /\ ~result.success
          /\ result = test_run.executions[Len(test_run.executions)]

\* C9 witness: a direct call on a successful result has raised.
C9_Witness ==
    DirectDiagnosisDone /\ result.success /\ outcome = "diagnose_raised"

\* The model tier's call failed, or its response holds no JSON or a value
\* of the wrong type.
Unusable(resp) ==
    \/ resp.kind \in {"call_fails", "not_json"}
    \/ resp.kind = "json"
         /\ (resp.error_type = "<null>" \/ resp.conf_kind = "ill_typed")

\* The response is JSON that leaves a field out.
MissingField(resp) ==
    resp.kind = "json"
      /\ (resp.error_type = "<absent>" \/ resp.conf_kind = "absent")

\* A diagnose_error call on a failed result has just ended with the
\* diagnosis in the local diagnosis.
DiagnosedFailure ==
    \/ DirectDiagnosisDone /\ ~result.success
    \/ pc = "repair"

ModelTierInvoked == llm_response.kind # "none"

\* C11: the model-assisted tier is invoked if and only if the rule-tier
\* confidence is strictly below 0.7: it is invoked for unknown (0.5) and
\* for no matched category, crash (exactly 0.7) included.
C11_ModelTierIffLowConfidence ==
    DiagnosedFailure =>
        LET rule_based == rule_based_diagnosis(result)
        IN  /\ ModelTierInvoked <=> rule_based.confidence < 70
            /\ rule_based.error_type = "unknown" => ModelTierInvoked
            /\ rule_based.error_type # "unknown" => ~ModelTierInvoked
            /\ DirectDiagnosisDone =>
                  calls.llm_diagnosis = (IF ModelTierInvoked THEN 1 ELSE 0)

\* C11 witness: a crash text was diagnosed at confidence 0.7 without the
\* model tier.
C11_Witness ==
    /\ DirectDiagnosisDone /\ ~result.success
    /\ result.error_message = << "crash" >>
    /\ diagnosis.error_type = "crash" /\ diagnosis.confidence = 70
    /\ calls.llm_diagnosis = 0

\* A keyword of the group occurs in the lower-cased text.
Mentions(text, keywords) ==
    \E i \in 1..Len(text) :
        \E keyword \in keywords : KeywordIn(keyword, Lower(text[i]))

\* The categories in the order of precedence.
Precedence ==
    << [error_type |-> "selector_not_found", keywords |-> SelectorKeywords],
       [error_type |-> "timeout",            keywords |-> TimeoutKeywords],
       [error_type |-> "network_error",      keywords |-> NetworkKeywords],
       [error_type |-> "javascript_error",   keywords |-> JavascriptKeywords],
       [error_type |-> "crash",              keywords |-> CrashKeywords] >>

\* The first category in the order of precedence with a keyword in the
\* text; unknown if there is none.
FirstMatch(text) ==
    LET hits == { n \in 1..Len(Precedence) : Mentions(text, Precedence[n].keywords) }
    IN  IF hits = {} THEN "unknown"
        ELSE Precedence[CHOOSE n \in hits : \A m \in hits : n <= m].error_type

\* The diagnosis of the call that has just ended is the rule tier's: the
\* model tier was not called, or it failed and the rule tier was used.
RuleTierDiagnosis ==
    DiagnosedFailure /\ llm_response.kind \in {"none", "call_fails", "not_json"}

\* C12: the rule tier classifies an error text as the first category, in
\* the order selector, timeout, network, script-runtime, crash, that has a
\* keyword in the lower-cased text (a text with a selector and a timeout
\* keyword is selector_not_found), and as unknown with confidence 0.5 when
\* no keyword occurs.
C12_FirstMatchWins ==
    RuleTierDiagnosis =>
        /\ diagnosis.error_type = FirstMatch(result.error_message)
        /\ (Mentions(result.error_message, SelectorKeywords)
               /\ Mentions(result.error_message, TimeoutKeywords))
              => diagnosis.error_type = "selector_not_found"
        /\ FirstMatch(result.error_message) = "unknown"
              => diagnosis.error_type = "unknown" /\ diagnosis.confidence = 50

\* C12 witness: a text with a selector keyword and a timeout keyword was
\* classified.
C12_Witness ==
    /\ DirectDiagnosisDone /\ ~result.success
    /\ result.error_message = << "Locator", "Timeout" >>
    /\ diagnosis.error_type = "selector_not_found"

\* The confidence of each matched category, in hundredths.
FixedConfidence ==
    [e \in {"selector_not_found", "timeout", "network_error",
            "javascript_error", "crash"} |->
        CASE e = "selector_not_found" -> 80
          [] e = "timeout"            -> 85
          [] e = "network_error"      -> 90
          [] e = "javascript_error"   -> 75
          [] e = "crash"              -> 70]

\* C13: the rule tier gives each matched category a fixed confidence
\* (selector_not_found 0.8, timeout 0.85, network_error 0.9,
\* javascript_error 0.75, crash 0.7) and a fixed fix list, whatever the
\* text; the text "Timeout" yields timeout / 0.85 with an "Increase
\* timeout" fix and no model-tier call, and a text with
\* "net::ERR_CONNECTION_REFUSED" yields network_error / 0.9.
C13_FixedPerCategory ==
    /\ (DiagnosedFailure /\ ~ModelTierInvoked) =>
          /\ diagnosis.error_type \in DOMAIN FixedConfidence
          /\ diagnosis.confidence = FixedConfidence[diagnosis.error_type]
          /\ Len(diagnosis.suggested_fixes) = 4
          /\ \A m \in ErrorTexts :
                LET other == rule_based_diagnosis(ExecutionResult(2, FALSE, m))
                IN  other.error_type = diagnosis.error_type =>
                      /\ other.confidence = diagnosis.confidence
                      /\ other.suggested_fixes = diagnosis.suggested_fixes
                      /\ other.error_message = diagnosis.error_message
    /\ (DiagnosedFailure /\ result.error_message = << "Timeout" >>) =>
          /\ diagnosis.error_type = "timeout"
          /\ diagnosis.confidence = 85
          /\ diagnosis.suggested_fixes[1] = "Increase timeout: timeout=60000"
          /\ ~ModelTierInvoked
    /\ (DiagnosedFailure
          /\ result.error_message = << "net::ERR_CONNECTION_REFUSED" >>) =>
          /\ diagnosis.error_type = "network_error"
          /\ diagnosis.confidence = 90
          /\ ~ModelTierInvoked

\* C13 witness: the text "Timeout" was diagnosed on its own, and the model
\* tier was never called.
C13_Witness ==
    /\ DirectDiagnosisDone /\ ~result.success
    /\ result.error_message = << "Timeout" >>
    /\ diagnosis.confidence = 85
    /\ calls.llm_diagnosis = 0

\* A direct repair_script call has just returned a RepairAttempt for the
\* script in current_script and the diagnosis in diagnosis.
DirectRepairReturned ==
    pc \in {"repaired", "repaired_again"} /\ outcome = "repair_returned"

\* The source has no timeout configuration.
NoTimeoutConfiguration(code) ==
    ~Contains(code, "timeout=") /\ ~Contains(code, "wait_until=")

\* C14: for a timeout diagnosis and every script without timeout
\* configuration, with or without an "await page.goto(" call, repair_script
\* returns through the deterministic tier a new version whose source
\* contains "timeout=" and "wait_until=".
C14_TimeoutFixAddsConfiguration ==
    (/\ pc = "repaired"
     /\ attempt <= MAX_REPAIR_ATTEMPTS
     /\ diagnosis.error_type = "timeout"
     /\ NoTimeoutConfiguration(current_script.code)) =>
        /\ outcome = "repair_returned"
        /\ repair.repaired_script.model_used = "quick_fix"
        /\ repair.repaired_script.version = current_script.version + 1
        /\ Contains(repair.repaired_script.code, "timeout=")
        /\ Contains(repair.repaired_script.code, "wait_until=")

\* C15: repair_script with a timeout diagnosis, applied to the version a
\* deterministic timeout repair produced, makes no deterministic change and
\* goes to the model tier, for every original script.
C15_TimeoutFixIdempotent ==
    [][(/\ pc = "repaired" /\ outcome = "repair_returned"
        /\ diagnosis.error_type = "timeout"
        /\ repair.repaired_script.model_used = "quick_fix"
        /\ pc' = "repaired_again") =>
           /\ calls'.llm_repair = calls.llm_repair + 1
           /\ outcome' = "repair_returned" =>
                 repair'.repaired_script.model_used = DEFAULT_MODEL]_vars

\* C16: the deterministic tier returns a result only when it changed the
\* source: no RepairAttempt of the deterministic tier has a repaired
\* script whose code equals the original code, whatever the diagnosis.
C16_QuickFixChangesCode ==
    /\ (DirectRepairReturned /\ repair.repaired_script.model_used = "quick_fix")
          => repair.repaired_script.code # current_script.code
    /\ \A i \in 1..Len(test_run.repairs) :
          test_run.repairs[i].repaired_script.model_used = "quick_fix" =>
              test_run.repairs[i].repaired_script.code
                  # test_run.scripts[test_run.repairs[i].original_version].code

\* C17: every repair_script call that returns, from either tier, returns a
\* RepairAttempt whose original_version is the input version v, whose
\* repaired_script.version is v + 1 and whose diagnosis_used is the
\* diagnosis passed in; and the loop appends exactly that record to repairs
\* and exactly that script to scripts.
C17_OneRecordPerRepair ==
    /\ [](DirectRepairReturned =>
            /\ repair.original_version = current_script.version
            /\ repair.repaired_script.version = current_script.version + 1
            /\ repair.diagnosis_used = diagnosis)
    /\ [](Len(test_run.repairs) >= 1 =>
            /\ repair = test_run.repairs[Len(test_run.repairs)]
            /\ repair.repaired_script = test_run.scripts[Len(test_run.scripts)]
            /\ Len(test_run.scripts) = Len(test_run.repairs) + 1)
    /\ [][(pc = "repair" /\ pc' = "execute") =>
            /\ repair'.original_version = current_script.version
            /\ repair'.repaired_script.version = current_script.version + 1
            /\ repair'.diagnosis_used = diagnosis
            /\ test_run'.repairs = Append(test_run.repairs, repair')
            /\ test_run'.scripts = Append(test_run.scripts, repair'.repaired_script)]_vars
    /\ [][(pc = "repair" /\ pc' # "execute" /\ pc' # "repair") =>
            /\ test_run'.repairs = test_run.repairs
            /\ test_run'.scripts = test_run.scripts]_vars

\* C17 witness: a run holds a record of each tier, the last one just
\* appended.
C17_Witness ==
    /\ pc = "execute"
    /\ Len(test_run.repairs) >= 2
    /\ \E i \in 1..Len(test_run.repairs) :
          test_run.repairs[i].repaired_script.model_used = "quick_fix"
    /\ repair.repaired_script.model_used = DEFAULT_MODEL
    /\ repair = test_run.repairs[Len(test_run.repairs)]

\* C18: repair_script called with attempt_number > MAX_REPAIR_ATTEMPTS
\* raises before either tier runs: no script version is created or saved,
\* no synthesis request is issued, no cost is recorded.
C18_AttemptBudgetError ==
    (pc = "repaired" /\ attempt > MAX_REPAIR_ATTEMPTS) =>
        /\ outcome = "repair_raised"
        /\ repair = NoRepair
        /\ calls.llm_repair = 0
        /\ calls.synthesis = 0
        /\ calls.script_saves = 0
        /\ tracker.total_requests = 0
        /\ tracker.total_cost = 0
        /\ tracker.daily \in InitialDaily
        /\ ledger = tracker.daily

\* C18 witness: a direct call with attempt_number = MAX_REPAIR_ATTEMPTS + 1
\* on a script a quick fix applies to has raised.
C18_Witness ==
    /\ pc = "repaired"
    /\ MAX_REPAIR_ATTEMPTS >= 1
    /\ attempt = MAX_REPAIR_ATTEMPTS + 1
    /\ diagnosis.error_type = "timeout"
    /\ current_script.code = PlainCode
    /\ outcome = "repair_raised"

\* C19: every model-assisted synthesis request, the initial generation and
\* every model-assisted repair, is immediately preceded by a budget check
\* that allowed it.
C19_BudgetCheckedBeforeSynthesis ==
    [][(calls'.synthesis + calls'.llm_repair > calls.synthesis + calls.llm_repair)
          => /\ calls'.budget_checks = calls.budget_checks + 1
             /\ budget_check'.answer = "ok"]_vars

\* C20: check_budget(e) allows exactly when today's total + e <=
\* DAILY_BUDGET and e <= MAX_COST_PER_RUN; it names the daily ceiling when
\* the daily bound is violated and the per-run ceiling when only the
\* per-run bound is (daily total 4.90: 0.20 is rejected for the daily
\* ceiling, 0.05 is allowed).
C20_CheckBudget ==
    pc = "checked" =>
        LET e == budget_check.estimated_cost
            daily_ok == tracker.daily + e <= DAILY_BUDGET
            per_run_ok == e <= MAX_COST_PER_RUN
        IN  /\ budget_check.answer = "ok" <=> (daily_ok /\ per_run_ok)
            /\ ~daily_ok => budget_check.answer = "daily"
            /\ (daily_ok /\ ~per_run_ok) => budget_check.answer = "per_run"
            /\ (tracker.daily = 490000 /\ e = 20000) => budget_check.answer = "daily"
            /\ (tracker.daily = 490000 /\ e = 5000) => budget_check.answer = "ok"
            /\ tracker.daily = ledger /\ tracker.total_requests = 0

\* C20 witness: at a daily total of 4.90 an estimate of 0.20 was rejected
\* for the daily ceiling.
C20_Witness ==
    /\ pc = "checked"
    /\ tracker.daily = 490000
    /\ budget_check.estimated_cost = 20000
    /\ budget_check.answer = "daily"

\* The costs the workers of the fleet have recorded.
RecordedCosts ==
    workers[1].tracker.total_cost + workers[2].tracker.total_cost

\* C21: no lost updates on the shared daily total: whatever the
\* interleaving of the workers' track_request calls, the persisted daily
\* total is the total at start-up plus the sum of all recorded costs.
C21_NoLostUpdates ==
    pc = "fleet" => ledger = ledger_at_start + RecordedCosts

\* C22: track_request never fails because a model has no pricing entry,
\* whatever FALLBACK_MODEL is configured.
C22_PricingNeverFails == outcome # "track_raised"

\* C23: task.status follows the loop, and when run_automation returns it
\* is success or failed, equal to final_status.
C23_TaskStatusFollowsLoop ==
    RunReturned =>
        /\ task_status \in {"success", "failed"}
        /\ task_status = test_run.final_status

\* C24: when the execution backend raises, the loop records exactly one
\* ExecutionResult for the current version, with success false and an
\* error message, and goes on as for a reported failure: to the diagnosis
\* with auto_heal and attempts left, sealed as failed otherwise; the run
\* does not end through the outer handler.
C24_ExecutionExceptionRecovered ==
    [][(calls'.execution_failures > calls.execution_failures) =>
          /\ test_run'.executions = Append(test_run.executions, result')
          /\ result'.script_version = current_script.version
          /\ ~result'.success
          /\ result'.error_message # << >>
          /\ outcome' = "none"
          /\ IF auto_heal /\ attempt <= MAX_REPAIR_ATTEMPTS
             THEN pc' = "diagnose" /\ test_run'.final_status = "pending"
             ELSE pc' = "save" /\ test_run'.final_status = "failed"]_vars

\* C24 witness: the backend raised in the execution of a repaired version
\* and the loop is at the diagnosis.
C24_Witness ==
    /\ pc = "diagnose"
    /\ calls.execution_failures >= 1
    /\ result.script_version >= 2
    /\ result.error_message = << "Execution failed to start:", "boom" >>

\* C25: when repair_script raises, the run is sealed as failed and leaves
\* the loop; the step appends nothing (repairs, scripts and total_cost are
\* unchanged), and no execution, diagnosis or repair follows.
C25_RepairFailureSeals ==
    /\ [][(pc = "repair" /\ pc' # "execute" /\ pc' # "repair") =>
            /\ pc' = "save"
            /\ test_run'.final_status = "failed"
            /\ test_run'.repairs = test_run.repairs
            /\ test_run'.scripts = test_run.scripts
            /\ test_run'.total_cost = test_run.total_cost
            /\ test_run'.executions = test_run.executions
            /\ test_run'.diagnoses = test_run.diagnoses]_vars
    /\ [][(pc = "save" \/ pc = "done") =>
            /\ (pc' = "save" \/ pc' = "done")
            /\ test_run'.executions = test_run.executions
            /\ test_run'.diagnoses = test_run.diagnoses
            /\ test_run'.repairs = test_run.repairs
            /\ calls' = calls]_vars

\* C25 witness: the synthesis backend failed in a model-assisted repair
\* after an earlier repair, and the run left the loop as failed.
C25_Witness ==
    /\ pc = "save"
    /\ calls.llm_repair >= 1
    /\ calls.synthesis_failures = 1
    /\ Len(test_run.repairs) >= 1
    /\ Len(test_run.diagnoses) = Len(test_run.repairs) + 1
    /\ test_run.final_status = "failed"

\* C26: with auto_heal false, a run whose initial synthesis succeeded has
\* exactly one execution, no diagnosis and no repair, has issued no
\* classification or repair request, and ends success if the execution
\* succeeded and failed otherwise.
C26_NoAutoHealSingleExecution ==
    (RunReturned /\ ~auto_heal /\ Len(test_run.scripts) >= 1) =>
        /\ Len(test_run.executions) = 1
        /\ Len(test_run.diagnoses) = 0
        /\ Len(test_run.repairs) = 0
        /\ calls.rule_diagnosis = 0
        /\ calls.llm_diagnosis = 0
        /\ calls.llm_repair = 0
        /\ test_run.final_status =
              (IF test_run.executions[1].success THEN "success" ELSE "failed")

\* C27: when the initial synthesis fails, by a backend error or a budget
\* rejection, the run goes directly to failed: the TestRun returned has
\* final_status failed, no scripts, executions, diagnoses or repairs and
\* total_cost 0, and the execution backend was never called.
C27_SynthesisFailureIsFatal ==
    [][(pc = "generate"
          /\ (budget_check'.answer # "ok"
                \/ calls'.synthesis_failures > calls.synthesis_failures)) =>
            /\ pc' = "done"
            /\ outcome' = "returned"
            /\ test_run'.final_status = "failed"
            /\ test_run'.scripts = << >>
            /\ test_run'.executions = << >>
            /\ test_run'.diagnoses = << >>
            /\ test_run'.repairs = << >>
            /\ test_run'.total_cost = 0
            /\ calls'.execution = 0]_vars

\* C27 witness: a run rejected by the budget check was returned as failed.
C27_Witness ==
    /\ RunReturned
    /\ budget_check.answer = "daily"
    /\ calls.synthesis = 0
    /\ test_run.final_status = "failed"

\* C28: every TestRun run_automation returns has been persisted exactly
\* once, sealed and with its final status, on every exit path.
C28_PersistedOnce ==
    RunReturned => (Len(saved) = 1 /\ saved[1] = test_run)

\* C29: any two tasks have different ids, also when created in the same
\* second, and no task's persisted run record is overwritten by another
\* task.
C29_TaskIdsDiffer ==
    /\ \A v, w \in Workers :
          (v # w /\ workers[v].task_id # NoTask /\ workers[w].task_id # NoTask)
              => workers[v].task_id # workers[w].task_id
    /\ \A w \in Workers :
          workers[w].saved =>
              [task_id |-> workers[w].task_id, written_by |-> w] \in run_files

\* The sum of the cost fields of a list of script versions.
RECURSIVE SumCost(_)
SumCost(scripts) ==
    IF scripts = << >> THEN 0
    ELSE Head(scripts).cost + SumCost(Tail(scripts))

\* C30: after every step, test_run.total_cost is the sum of the cost
\* fields of the versions in test_run.scripts, also once the task has
\* failed.
C30_TotalCostIsSumOfScripts ==
    test_run.total_cost = SumCost(test_run.scripts)

\* C30 witness: a run with a generated and a model-repaired version was
\* returned as failed with both costs in the total.
C30_Witness ==
    /\ RunReturned
    /\ test_run.final_status = "failed"
    /\ Len(test_run.scripts) >= 2
    /\ test_run.scripts[2].cost > 0
    /\ test_run.total_cost = test_run.scripts[1].cost + test_run.scripts[2].cost

\* C31: the model tier of diagnose_error is asked whatever the budget, also
\* when the daily total is above the ceiling, and every model-tier call the
\* backend answers adds its cost to the session total and to the daily
\* total, also when the answer is malformed and the rule-tier diagnosis is
\* returned.
C31_ModelTierUnbudgeted ==
    [][(calls'.rule_diagnosis > calls.rule_diagnosis
          /\ rule_based_diagnosis(result').confidence < 70) =>
          /\ calls'.llm_diagnosis = calls.llm_diagnosis + 1
          /\ llm_response'.kind # "call_fails" =>
                LET cost == calculate_cost(DEFAULT_MODEL,
                                           llm_response'.prompt_tokens,
                                           llm_response'.completion_tokens)
                IN  /\ cost > 0
                    /\ tracker'.total_cost = tracker.total_cost + cost
                    /\ tracker'.daily = tracker.daily + cost
                    /\ ledger' = tracker'.daily]_vars

\* C31 witness: with a daily total above the ceiling the model tier was
\* asked, its answer held no JSON, the rule-tier diagnosis was returned and
\* the cost is in both totals.
C31_Witness ==
    /\ pc = "done"
    /\ outcome = "diagnose_returned"
    /\ ledger_at_start > DAILY_BUDGET
    /\ llm_response.kind = "not_json"
    /\ diagnosis = rule_based_diagnosis(result)
    /\ tracker.total_cost > 0
    /\ ledger = ledger_at_start + tracker.total_cost

\* C32: today's daily total never exceeds DAILY_BUDGET, whatever calls are
\* made, when it was within the ceiling at start-up.
C32_DailyCeilingEnforced ==
    ledger_at_start <= DAILY_BUDGET =>
        (tracker.daily <= DAILY_BUDGET /\ ledger <= DAILY_BUDGET)

\* C33: test_run.total_cost never exceeds MAX_COST_PER_RUN.
C33_PerRunCeilingEnforced == test_run.total_cost <= MAX_COST_PER_RUN

\* The totals per date a reader of the file gets: those written in a
\* readable file, none otherwise.
ReadableTotals(file) == IF file.kind = "json" THEN file.buckets ELSE NoBuckets

\* What daily_costs.json held per date, readably, at the start.
PersistedAtStart == ReadableTotals(store.file_at_start)

C35_CorruptLedgerIsFatal ==
    store.file_at_start.kind = "corrupt" =>
        /\ store.governor.status # "started"
        /\ store.file = store.file_at_start

\* C36: every ErrorDiagnosis diagnose_error returns has a confidence in
\* [0,1] and an error_type of the seven kinds.
C36_DiagnosisWellFormed ==
    ((pc = "done" /\ outcome = "diagnose_returned") \/ pc = "repair") =>
        /\ diagnosis.confidence \in 0..100
        /\ diagnosis.error_type \in ErrorType

\* C37: once cancellation was requested between two executions of a run,
\* the loop starts no other execution.
C37_CancelStopsExecutions ==
    [][cancel_requested => calls'.execution = calls.execution]_vars

\* C38: a run returned as success has a successful last execution and only
\* failed ones before it; a run returned as failed has no successful
\* execution.
C38_StatusAgreesWithHistory ==
    RunReturned =>
        LET n == Len(test_run.executions)
        IN  /\ test_run.final_status = "success" =>
                  /\ n >= 1
                  /\ test_run.executions[n].success
                  /\ \A i \in 1..(n - 1) : ~test_run.executions[i].success
            /\ test_run.final_status = "failed" =>
                  \A i \in 1..n : ~test_run.executions[i].success

\* C39: the i-th RepairAttempt of test_run.repairs has attempt_number i
\* (counted from 1), at most MAX_REPAIR_ATTEMPTS, whichever tier made it.
C39_AttemptNumbersFollowLoop ==
    \A i \in 1..Len(test_run.repairs) :
        /\ test_run.repairs[i].attempt_number = i
        /\ test_run.repairs[i].attempt_number <= MAX_REPAIR_ATTEMPTS

\* C40: when run_automation returns, test_run.total_cost is the cost the
\* run's model calls recorded with the cost tracker: the growth of the
\* session total over the run.
C40_TotalCostIsSessionGrowth ==
    RunReturned => test_run.total_cost = tracker.total_cost

====
